---- MODULE Spec2Model ----
(***************************************************************************)
(* Model of the build command of tools/cli_command/cli_build.py: the       *)
(* platform provisioning and build orchestration pipeline.                 *)
(*                                                                         *)
(* Persistent state is what lives on disk or in the global git             *)
(* configuration between invocations; the record inv[p] is the state of    *)
(* one invocation of `tos.py build` (its position in build_project, its    *)
(* local variables, and the history of what it called and logged).         *)
(***************************************************************************)
EXTENDS Integers, Sequences, FiniteSets, TLC

\* Number of build invocations explored on one project root.
MaxBuilds == 2

\* Invocations of the build command that may exist; `active` says which of
\* them are started in a given specification.
Procs == {1, 2}

\* Revisions a platform working tree can be at.
Revs == {"abc123", "def456"}

\* The keys the project configuration is expected to hold.
RequiredKeys ==
    {"CONFIG_PROJECT_NAME", "CONFIG_PROJECT_VERSION", "CONFIG_PLATFORM_CHOICE",
     "CONFIG_CHIP_CHOICE", "CONFIG_BOARD_CHOICE", "CONFIG_FRAMEWORK_CHOICE"}

\* The value the configuration wizard wrote for each key.
ConfigValue ==
    [k \in RequiredKeys |->
        CASE k = "CONFIG_PROJECT_NAME"     -> "myapp"
          [] k = "CONFIG_PROJECT_VERSION"  -> "1.0.0"
          [] k = "CONFIG_PLATFORM_CHOICE"  -> "esp32"
          [] k = "CONFIG_CHIP_CHOICE"      -> "esp32s3"
          [] k = "CONFIG_BOARD_CHOICE"     -> "devkit"
          [] k = "CONFIG_FRAMEWORK_CHOICE" -> "base"]

\* Configuration files considered: complete, or with one required key absent.
ConfigFiles ==
    {[k \in RequiredKeys \ miss |-> ConfigValue[k]] :
        miss \in {{}} \cup {{k} : k \in RequiredKeys}}

\* A registry record of platforms.yaml.
Entry(name, repo, commit) == [name |-> name, repo |-> repo, commit |-> commit]

OtherEntry == Entry("t5", "https://example/t5.git", "def456")

\* Registry documents considered: empty, without the configured platform, and
\* with it (after another entry) pinned to each revision or to none.
RegistryDocs ==
    {<<>>, <<OtherEntry>>} \cup
    {<<OtherEntry, Entry("esp32", "https://example/esp32.git", c)>> :
        c \in Revs \cup {""}}

\* Hook scripts a platform working tree may hold.
HookFiles ==
    {"platform_prepare.py", "platform_prepare.sh", "build_setup.py", "build_setup.sh"}

\* Contents of the platform repository considered: no hook script, one of
\* them, all of them.
RepoContents == {{}, HookFiles} \cup {{f} : f \in HookFiles}

\* What the user may type at the drift prompt.
Inputs == {"y", "Y", "n", "N", "d", "D", "yes", ""}

\* Zone labels of the region detector.
Zones == {"China", "Other"}

VARIABLES
    mirror,                 \* the git mirror override is configured
    env_update_submodules,  \* environment cache, key "update_submodules"
    platform_root,          \* the platform working tree: [exists, rev]
    dont_update_platform,   \* the suppression flag file exists
    platforms_yaml,         \* the registry document
    using_config,           \* the project configuration file
    repo_files,             \* hook scripts the platform repository ships
    build_ninja,            \* build.ninja exists in the build directory
    app_bin,                \* binary-output directory: [artifact, gen]
    dist_root,              \* the distribution root exists
    dist_path,              \* the package {appName}_{appVersion}
    dist_other,             \* another package under the distribution root
    builds,                 \* build invocations started so far
    active,                 \* the invocations this specification starts
    inv                     \* per invocation: position, locals, history

vars == <<mirror, env_update_submodules, platform_root, dont_update_platform,
          platforms_yaml, using_config, repo_files, build_ninja, app_bin,
          dist_root, dist_path, dist_other, builds, active, inv>>

disk == <<mirror, env_update_submodules, platform_root, dont_update_platform,
          build_ninja, app_bin, dist_root, dist_path, dist_other>>

inputs == <<platforms_yaml, using_config, repo_files, active>>

----------------------------------------------------------------------------
(* Helpers on the record of one invocation *)

NoTree == [exists |-> FALSE, rev |-> ""]

NoPkg == [exists |-> FALSE, gen |-> 0, complete |-> FALSE]

NoSnapshot == [mirror |-> FALSE, flag |-> FALSE, tree |-> NoTree]

\* What an invocation remembers of the one before it on the same terminal:
\* nothing, before the first.
NoPrev == [exit |-> -1, answer |-> "", half_cloned |-> FALSE]

\* The distribution output as check_bin_file found it.
NoDist == [root |-> FALSE, path |-> NoPkg]

Fresh ==
    [pc |-> "idle", id |-> 0, calls |-> <<>>, logs |-> <<>>, stages |-> <<>>,
     before_updated |-> FALSE, using_data |-> [k \in {} |-> ""], platform_name |-> "",
     repo |-> "", commit |-> "", code |-> "", answer |-> "",
     dl0 |-> NoSnapshot, dl_ret |-> "none", ret |-> "none", exit |-> -1,
     pk0 |-> NoDist, prev |-> NoPrev]

\* dict.get(key, "")
Get(d, k) == IF k \in DOMAIN d THEN d[k] ELSE ""

Log(r, lvl, msg) == [r EXCEPT !.logs = Append(@, [lvl |-> lvl, msg |-> msg])]

Call(r, op, arg, ok) ==
    [r EXCEPT !.calls = Append(@, [op |-> op, arg |-> arg, ok |-> ok])]

Stage(r, name, res) ==
    [r EXCEPT !.stages = Append(@, [stage |-> name, res |-> res])]

Goto(r, pc) == [r EXCEPT !.pc = pc]

Set(p, r) == inv' = [inv EXCEPT ![p] = r]

At(p, pc) == p \in active /\ inv[p].pc = pc

----------------------------------------------------------------------------
(* Collaborators outside cli_build.py *)

\* str.upper() on the answers considered.
Upper(s) ==
    CASE s = "y" -> "Y"
      [] s = "n" -> "N"
      [] s = "d" -> "D"
      [] s = "yes" -> "YES"
      [] OTHER -> s

\* set_repo_mirro(unset): the mirror state it leaves behind.
set_repo_mirro(unset) == ~unset

\* git_get_commit(repo_path): the current revision of the working tree.
git_get_commit(tree) == IF tree.exists THEN tree.rev ELSE "Unknown"

\* git_clone(repo, dest) can succeed only into a destination that is absent.
CloneOutcomes(tree) == IF tree.exists THEN {FALSE} ELSE BOOLEAN

\* git_checkout(path, commit) can succeed only on a working tree.
CheckoutOutcomes(tree) == IF tree.exists THEN BOOLEAN ELSE {FALSE}

\* The working tree after a successful checkout of `commit`.
CheckedOut(tree, commit) ==
    [tree EXCEPT !.rev = IF commit = "" THEN @ ELSE commit]

\* os.path.exists of a hook script inside the platform working tree.
HookExists(f) == platform_root.exists /\ f \in repo_files

----------------------------------------------------------------------------
(* cli_build.py *)

\* Variant: the command always exits with status 0.
cli_always_zero(ret) == 0

\* cli: the exit status for what build_project returned (an uncaught
\* exception ends the interpreter with status 1).
cli(ret) == IF ret = "True" THEN 0 ELSE 1

\* build_project returns `ret` and cli exits.
Return(r, ret) == [r EXCEPT !.pc = "exited", !.ret = ret, !.exit = cli(ret)]

\* get_platform_info: the first registry entry named `platform`, else {}.
RECURSIVE FirstEntry(_, _)
FirstEntry(platform_list, platform) ==
    IF platform_list = <<>> THEN <<>>
    ELSE IF Get(Head(platform_list), "name") = platform THEN Head(platform_list)
    ELSE FirstEntry(Tail(platform_list), platform)

get_platform_info(platform) == FirstEntry(platforms_yaml, platform)

\* The invocation cloned the platform and then failed to download it (the
\* checkout failed).
HalfCloned(r) ==
    /\ r.dl_ret = "False"
    /\ \E i \in DOMAIN r.calls : r.calls[i].op = "git_clone" /\ r.calls[i].ok

\* Variant: a build starts only while no other build is running.
Invoke_serialized(p) ==
    /\ p \in active
    /\ \A q \in active : inv[q].pc \in {"idle", "exited"}
    /\ builds < MaxBuilds
    /\ builds' = builds + 1
    /\ Set(p, Goto([Fresh EXCEPT !.id = builds + 1,
                                 !.prev = [exit |-> inv[p].exit,
                                           answer |-> inv[p].answer,
                                           half_cloned |-> HalfCloned(inv[p])]],
                   "env_check"))
    /\ UNCHANGED <<disk, inputs>>

\* `tos.py build` is started: cli calls build_project.
Invoke(p) ==
    /\ p \in active
    /\ inv[p].pc \in {"idle", "exited"}
    /\ builds < MaxBuilds
    /\ builds' = builds + 1
    /\ Set(p, Goto([Fresh EXCEPT !.id = builds + 1,
                                 !.prev = [exit |-> inv[p].exit,
                                           answer |-> inv[p].answer,
                                           half_cloned |-> HalfCloned(inv[p])]],
                   "env_check"))
    /\ UNCHANGED <<disk, inputs>>

\* Variant: the cached result is not looked at.
SkipUpdate_never(before_updated) == FALSE

\* env_check: a cached success returns at once.
SkipUpdate(before_updated) == before_updated

\* env_check, the read of the cache: a cached success skips the update.
EnvRead(p) ==
    /\ At(p, "env_check")
    /\ LET r == [inv[p] EXCEPT !.before_updated = env_update_submodules] IN
         IF SkipUpdate(r.before_updated)
         THEN Set(p, Goto(Stage(r, "env_check", "ok"), "config"))
         ELSE Set(p, Goto(r, "update_submodules"))
    /\ UNCHANGED <<disk, inputs, builds>>

\* env_check, update_submodules() and the write of its result, then the
\* orchestrator's test of what env_check returned.
UpdateSubmodules(p) ==
    /\ At(p, "update_submodules")
    /\ \E ret \in BOOLEAN :
         LET r == Call(inv[p], "update_submodules", "", ret) IN
         /\ env_update_submodules' = ret
         /\ IF ret
            THEN Set(p, Goto(Stage(r, "env_check", "ok"), "config"))
            ELSE Set(p, Return(Log(Stage(r, "env_check", "fail"),
                                   "error", "Env check error."), "False"))
    /\ UNCHANGED <<mirror, platform_root, dont_update_platform, build_ninja,
                   app_bin, dist_root, dist_path, dist_other, inputs, builds>>

\* build_project reads the project configuration and the platform name.
LoadConfig(p) ==
    /\ At(p, "config")
    /\ LET using_data == using_config
           platform_name == Get(using_data, "CONFIG_PLATFORM_CHOICE")
           r == [inv[p] EXCEPT !.using_data = using_data,
                               !.platform_name = platform_name] IN
         IF platform_name = ""
         THEN Set(p, Return(Log(r, "error", "Not fount platform name."), "False"))
         ELSE Set(p, Goto(r, "download"))
    /\ UNCHANGED <<disk, inputs, builds>>

\* Variant: the flag file is not consulted.
NeedPrompt_ignores_flag(flag_exists) == TRUE

\* check_platform_commit: prompting is needed unless the flag file exists.
NeedPrompt(flag_exists) == ~flag_exists

\* Variant: a tree without pinned revision is compared like any other.
AcceptAsIs_never(commit) == FALSE

\* check_platform_commit: `if not commit`, the tree is taken as it is.
AcceptAsIs(commit) == commit = ""

\* Variant: the user is asked on every drift, flag or no flag.
AskUser_on_any_drift(need_prompt, real_commit, commit) == real_commit # commit

\* Variant: the user is asked whether or not the revisions differ.
AskUser_without_compare(need_prompt, real_commit, commit) == need_prompt

\* check_platform_commit: the condition under which the user is asked.
AskUser(need_prompt, real_commit, commit) == need_prompt /\ real_commit # commit

\* Variant: the checkout is attempted whatever the clone returned.
AfterClone_no_short_circuit(ok) == "checkout"

\* download_platform: where a clone's result leads (`or` short-circuits).
AfterClone(ok) == IF ok THEN "checkout" ELSE "finally"

\* Variant: the result of the checkout is dropped.
DownloadResult_clone_only(cloned, checked_out) ==
    IF ~cloned THEN "False" ELSE "True"

\* download_platform: the value returned from inside the try block.
DownloadResult(cloned, checked_out) ==
    IF ~cloned \/ ~checked_out THEN "False" ELSE "True"

\* Variant: the mirror is disabled after the try block, on success only.
MirrorDisableDue_on_success(code, dl_ret) == code = "China" /\ dl_ret = "True"

\* download_platform: the finally clause disables the mirror on every path
\* on which the region was China.
MirrorDisableDue(code, dl_ret) == code = "China"

\* Variant: "N" is taken for the update.
AnswerAction_n_updates(ret) ==
    CASE ret \in {"Y", "N"} -> "update"
      [] ret = "D" -> "suppress"
      [] OTHER -> "none"

\* Variant: an answer that is none of Y, N, D is taken for the update.
AnswerAction_default_update(ret) ==
    CASE ret = "N" -> "skip"
      [] ret = "D" -> "suppress"
      [] OTHER -> "update"

\* Variant: "D" writes no flag.
AnswerAction_d_ignored(ret) ==
    CASE ret = "Y" -> "update"
      [] ret = "N" -> "skip"
      [] OTHER -> "none"

\* check_platform_commit: the branch an answer selects (if / elif / elif,
\* with no else).
AnswerAction(ret) ==
    CASE ret = "Y" -> "update"
      [] ret = "N" -> "skip"
      [] ret = "D" -> "suppress"
      [] OTHER -> "none"

\* Variant: a failed update is not reported.
CheckResult_always_true(action, checked_out) == TRUE

\* check_platform_commit: what the prompt branch returns; only a failed
\* checkout of the update returns False.
CheckResult(action, checked_out) == ~(action = "update" /\ ~checked_out)

\* The orchestrator's test of what download_platform returned.
AfterDownload(r, ok) ==
    IF ok
    THEN Goto(Log(Stage([r EXCEPT !.dl_ret = "True"], "download", "ok"),
                  "info", "Platform downloaded successfully."), "prepare")
    ELSE Return(Log(Stage([r EXCEPT !.dl_ret = "False"], "download", "fail"),
                    "error", "Download platform error."), "False")

\* Variant: the working tree is not looked for.
TreePresent_unchecked(exists) == FALSE

\* download_platform: `if os.path.exists(platform_root)`.
TreePresent(exists) == exists

\* download_platform up to its first blocking call: the registry lookup, the
\* test for the working tree and, for a present tree, check_platform_commit
\* up to the prompt (its own test for the path repeats the caller's in the
\* same step, so its "Not found" branch is not taken).
Download(p) ==
    /\ At(p, "download")
    /\ LET platform_info == get_platform_info(inv[p].platform_name)
           repo == Get(platform_info, "repo")
           commit == Get(platform_info, "commit")
           r0 == [inv[p] EXCEPT !.repo = repo, !.commit = commit,
                                !.dl0 = [mirror |-> mirror,
                                         flag |-> dont_update_platform,
                                         tree |-> platform_root]]
           r1 == IF platform_info = <<>>
                 THEN Log(r0, "error", "Not found platform in yaml.")
                 ELSE r0
           need_prompt == NeedPrompt(dont_update_platform)
           real_commit == git_get_commit(platform_root)
           r2 == Log(r1, "info", "Platform is exists.")
           r3 == Call(Call(r2, "exists", "dont_update_platform",
                           dont_update_platform),
                      "git_get_commit", "", TRUE) IN
         IF TreePresent(platform_root.exists)
         THEN IF AcceptAsIs(commit)
              THEN Set(p, AfterDownload(r2, TRUE))
              ELSE IF AskUser(need_prompt, real_commit, commit)
                   THEN Set(p, Goto(Log(Log(r3, "warning", "commit mismatch"),
                                        "info", "Update the platform?"), "prompt"))
                   ELSE Set(p, AfterDownload(r3, TRUE))
         ELSE Set(p, Goto(Log(r1, "info", "Downloading platform ..."), "region"))
    /\ UNCHANGED <<disk, inputs, builds>>

\* check_platform_commit from the user's answer to its return.
Prompt(p) ==
    /\ At(p, "prompt")
    /\ \E typed \in Inputs :
         LET ret == Upper(typed)
             r == Call([inv[p] EXCEPT !.answer = ret], "input", ret, TRUE) IN
         CASE AnswerAction(ret) = "update" ->
                \E ok \in CheckoutOutcomes(platform_root) :
                  LET rc == Call(r, "git_checkout", r.commit, ok) IN
                  /\ platform_root' = IF ok THEN CheckedOut(platform_root, r.commit)
                                            ELSE platform_root
                  /\ dont_update_platform' = dont_update_platform
                  /\ IF ok
                     THEN Set(p, AfterDownload(
                              Log(rc, "note", "Platform updated successfully."),
                              CheckResult("update", ok)))
                     ELSE Set(p, AfterDownload(
                              Log(rc, "error", "Update platform error."),
                              CheckResult("update", ok)))
           [] AnswerAction(ret) = "skip" ->
                /\ Set(p, AfterDownload(Log(r, "info", "Use tos.py update."),
                                        CheckResult("skip", FALSE)))
                /\ UNCHANGED <<platform_root, dont_update_platform>>
           [] AnswerAction(ret) = "suppress" ->
                /\ dont_update_platform' = TRUE
                /\ Set(p, AfterDownload(r, CheckResult("suppress", FALSE)))
                /\ UNCHANGED platform_root
           [] OTHER ->
                /\ Set(p, AfterDownload(r, CheckResult("none", FALSE)))
                /\ UNCHANGED <<platform_root, dont_update_platform>>
    /\ UNCHANGED <<mirror, env_update_submodules, build_ninja, app_bin,
                   dist_root, dist_path, dist_other, inputs, builds>>

\* Variant: the mirror is enabled in every zone.
MirrorEnableDue_any_zone(code) == TRUE

\* download_platform: the mirror is enabled for the zone "China".
MirrorEnableDue(code) == code = "China"

\* download_platform: the region detection and the mirror enable.
Region(p) ==
    /\ At(p, "region")
    /\ \E code \in Zones :
         LET r == Call([inv[p] EXCEPT !.code = code], "get_country_code", code, TRUE) IN
         IF MirrorEnableDue(code)
         THEN /\ mirror' = set_repo_mirro(FALSE)
              /\ Set(p, Goto(Call(r, "set_repo_mirro", "enable", TRUE), "clone"))
         ELSE /\ mirror' = mirror
              /\ Set(p, Goto(r, "clone"))
    /\ UNCHANGED <<env_update_submodules, platform_root, dont_update_platform,
                   build_ninja, app_bin, dist_root, dist_path, dist_other,
                   inputs, builds>>

\* download_platform: git_clone; a failed clone short-circuits the checkout.
Clone(p) ==
    /\ At(p, "clone")
    /\ \E ok \in CloneOutcomes(platform_root) :
         LET r == Call(inv[p], "git_clone", inv[p].repo, ok) IN
         /\ IF ok
            THEN \E head \in Revs : platform_root' = [exists |-> TRUE, rev |-> head]
            ELSE platform_root' = platform_root
         /\ IF AfterClone(ok) = "checkout"
            THEN Set(p, Goto(r, "checkout"))
            ELSE Set(p, Goto([r EXCEPT !.dl_ret = DownloadResult(ok, FALSE)],
                             "finally"))
    /\ UNCHANGED <<mirror, env_update_submodules, dont_update_platform,
                   build_ninja, app_bin, dist_root, dist_path, dist_other,
                   inputs, builds>>

\* download_platform: git_checkout of the pinned revision after the clone.
Checkout(p) ==
    /\ At(p, "checkout")
    /\ \E ok \in CheckoutOutcomes(platform_root) :
         LET r == Call(inv[p], "git_checkout", inv[p].commit, ok) IN
         /\ platform_root' = IF ok THEN CheckedOut(platform_root, r.commit)
                                   ELSE platform_root
         /\ Set(p, Goto([r EXCEPT !.dl_ret = DownloadResult(TRUE, ok)], "finally"))
    /\ UNCHANGED <<mirror, env_update_submodules, dont_update_platform,
                   build_ninja, app_bin, dist_root, dist_path, dist_other,
                   inputs, builds>>

\* Variant: a failed download removes the working tree it cloned.
Finally_removes_tree(p) ==
    /\ At(p, "finally")
    /\ LET r == inv[p] IN
         /\ platform_root' = IF r.dl_ret = "True" THEN platform_root ELSE NoTree
         /\ IF MirrorDisableDue(r.code, r.dl_ret)
            THEN /\ mirror' = set_repo_mirro(TRUE)
                 /\ Set(p, AfterDownload(Call(r, "set_repo_mirro", "disable", TRUE),
                                         r.dl_ret = "True"))
            ELSE /\ mirror' = mirror
                 /\ Set(p, AfterDownload(r, r.dl_ret = "True"))
    /\ UNCHANGED <<env_update_submodules, dont_update_platform,
                   build_ninja, app_bin, dist_root, dist_path, dist_other,
                   inputs, builds>>

\* download_platform: the finally clause, then the return.
Finally(p) ==
    /\ At(p, "finally")
    /\ LET r == inv[p] IN
         IF MirrorDisableDue(r.code, r.dl_ret)
         THEN /\ mirror' = set_repo_mirro(TRUE)
              /\ Set(p, AfterDownload(Call(r, "set_repo_mirro", "disable", TRUE),
                                      r.dl_ret = "True"))
         ELSE /\ mirror' = mirror
              /\ Set(p, AfterDownload(r, r.dl_ret = "True"))
    /\ UNCHANGED <<env_update_submodules, platform_root, dont_update_platform,
                   build_ninja, app_bin, dist_root, dist_path, dist_other,
                   inputs, builds>>

\* Variant: the orchestrator goes on after a failed hook.
AfterHook_goes_on(r, stage, ok, next) ==
    Goto(Log(Stage(r, stage, IF ok THEN "ok" ELSE "fail"), "info", "success"), next)

\* Variant: a failed hook is run again.
AfterHook_retries(r, stage, ok, next) ==
    IF ok
    THEN Goto(Log(Stage(r, stage, "ok"), "info", "success"), next)
    ELSE Goto(Log(r, "warning", "retry"), stage)

\* The orchestrator's test of what a hook stage returned.
AfterHook(r, stage, ok, next) ==
    IF ok
    THEN Goto(Log(Stage(r, stage, "ok"), "info", "success"), next)
    ELSE Return(Log(Stage(r, stage, "fail"), "error",
                    IF stage = "prepare" THEN "Prepare platform error."
                                         ELSE "Build setup error."), "False")

\* Variant: only the .py script is looked for.
NoHook_py_only(py_exists, sh_exists) == ~py_exists

\* prepare_platform, build_setup: there is nothing to run when neither the
\* .py nor the .sh script exists.
NoHook(py_exists, sh_exists) == ~py_exists /\ ~sh_exists

\* A hook stage (prepare_platform, build_setup): no script, no subprocess;
\* else the .py script if it exists, the .sh script otherwise.
Hook(p, stage, py, sh, next) ==
    /\ At(p, stage)
    /\ IF NoHook(HookExists(py), HookExists(sh))
       THEN Set(p, AfterHook(Log(inv[p], "debug", "no need"), stage, TRUE, next))
       ELSE \E ret \in {0, 1} :
              LET cmd == IF HookExists(py) THEN py ELSE sh
                  r == Call(Log(inv[p], "info", "running hook"),
                            "do_subprocess", cmd, ret = 0) IN
              Set(p, AfterHook(r, stage, ret = 0, next))
    /\ UNCHANGED <<disk, inputs, builds>>

\* Variant: build_setup is left out of the pipeline.
prepare_platform_then_cmake(p) ==
    Hook(p, "prepare", "platform_prepare.py", "platform_prepare.sh", "cmake")

prepare_platform(p) ==
    Hook(p, "prepare", "platform_prepare.py", "platform_prepare.sh", "setup")

build_setup(p) ==
    Hook(p, "setup", "build_setup.py", "build_setup.sh", "cmake")

\* cmake_configure and the orchestrator's test of its result; a successful
\* generation may write build.ninja.
cmake_configure(p) ==
    /\ At(p, "cmake")
    /\ \E ret \in {0, 1}, wrote \in BOOLEAN :
         LET r == Call(inv[p], "do_subprocess", "cmake -G Ninja", ret = 0) IN
         /\ build_ninja' = (build_ninja \/ (ret = 0 /\ wrote))
         /\ IF ret = 0
            THEN Set(p, Goto(Log(Stage(r, "cmake", "ok"), "info",
                                 "Cmake configure success."), "ninja"))
            ELSE Set(p, Return(Log(Stage(r, "cmake", "fail"), "error",
                                   "Cmake configure error."), "False"))
    /\ UNCHANGED <<mirror, env_update_submodules, platform_root,
                   dont_update_platform, app_bin, dist_root, dist_path, dist_other,
                   inputs, builds>>

\* Variant: ninja is run without looking for build.ninja.
GraphMissing_unchecked(is_file) == FALSE

\* ninja_build: the build graph is missing when build.ninja is no file.
GraphMissing(is_file) == ~is_file

\* Variant: the exit status of ninja is not looked at.
NinjaOk_any_status(ret) == TRUE

\* ninja_build: `if 0 != ret: return False`.
NinjaOk(ret) == ret = 0

\* ninja_build and the orchestrator's test of its result; a successful build
\* fills the binary-output directory, with or without the expected artifact.
ninja_build(p) ==
    /\ At(p, "ninja")
    /\ IF GraphMissing(build_ninja)
       THEN /\ Set(p, Return(Log(Stage(inv[p], "ninja", "fail"), "error",
                                 "Build error."), "False"))
            /\ app_bin' = app_bin
       ELSE \E ret \in {0, 1}, artifact \in BOOLEAN :
              LET r == Call(inv[p], "do_subprocess", "ninja example", ret = 0) IN
              /\ app_bin' = IF ret = 0 THEN [artifact |-> artifact, gen |-> r.id]
                                       ELSE app_bin
              /\ IF NinjaOk(ret)
                 THEN Set(p, Goto(Stage(r, "ninja", "ok"), "check_bin"))
                 ELSE Set(p, Return(Log(Stage(r, "ninja", "fail"), "error",
                                        "Build error."), "False"))
    /\ UNCHANGED <<mirror, env_update_submodules, platform_root,
                   dont_update_platform, build_ninja, dist_root, dist_path, dist_other,
                   inputs, builds>>

\* os.path.join
JoinPath(dir, name) == dir \o "/" \o name

\* check_bin_file: the expected artifact {appName}_QIO_{appVersion}.bin in the
\* binary-output directory.
AppBinFile(using_data) ==
    JoinPath("app_bin_path",
             Get(using_data, "CONFIG_PROJECT_NAME") \o "_QIO_"
                 \o Get(using_data, "CONFIG_PROJECT_VERSION") \o ".bin")

\* Variant: the distribution root is made before the artifact is looked for.
MakesDistRoot_first(found) == TRUE

\* check_bin_file: os.makedirs(dist_root) is reached only with the artifact
\* found.
MakesDistRoot(found) == found

\* check_bin_file: the test for the artifact and os.makedirs(dist_root).
check_bin_file(p) ==
    /\ At(p, "check_bin")
    /\ LET found == app_bin.artifact
           r == [inv[p] EXCEPT !.pk0 = [root |-> dist_root, path |-> dist_path]]
           made == IF MakesDistRoot(found)
                   THEN Call(r, "makedirs", "dist_root", TRUE) ELSE r IN
         /\ dist_root' = (dist_root \/ MakesDistRoot(found))
         /\ IF ~found
            THEN Set(p, Return(Log(Stage(made, "check_bin", "fail"), "error",
                                   "Not found " \o AppBinFile(r.using_data)),
                               "False"))
            ELSE Set(p, Goto(made, "rm_rf"))
    /\ UNCHANGED <<mirror, env_update_submodules, platform_root,
                   dont_update_platform, build_ninja, app_bin, dist_path,
                   dist_other, inputs, builds>>

\* The name of the package directory: {appName}_{appVersion}.
PackageName(using_data) ==
    Get(using_data, "CONFIG_PROJECT_NAME") \o "_"
        \o Get(using_data, "CONFIG_PROJECT_VERSION")

\* The distribution root, as a path of components.
DistRoot == <<"dist_root">>

\* A package of another version of the application, left by an earlier
\* release.
OtherPackage == "myapp_0.9.0"

OtherPkg == [exists |-> TRUE, gen |-> 0, complete |-> TRUE]

\* Variant: the distribution root itself is taken for the package.
DistPath_is_root(using_data) == DistRoot

\* check_bin_file: dist_path = os.path.join(dist_root, f"{app_name}_{app_ver}").
DistPath(using_data) == Append(DistRoot, PackageName(using_data))

\* `path` is `target` or lies beneath it.
Under(path, target) ==
    /\ Len(target) <= Len(path)
    /\ SubSeq(path, 1, Len(target)) = target

\* rm_rf(target): what is left of the directory `path`, which held `pkg`.
rm_rf(target, path, pkg) == IF Under(path, target) THEN NoPkg ELSE pkg

\* check_bin_file: rm_rf(dist_path).
RmRf(p) ==
    /\ At(p, "rm_rf")
    /\ LET target == DistPath(inv[p].using_data) IN
         /\ dist_path' = rm_rf(target, Append(DistRoot, PackageName(using_config)),
                               dist_path)
         /\ dist_other' = rm_rf(target, Append(DistRoot, OtherPackage), dist_other)
         /\ dist_root' = (dist_root /\ ~Under(DistRoot, target))
    /\ Set(p, Goto(Call(inv[p], "rm_rf", "dist_path", TRUE), "copytree"))
    /\ UNCHANGED <<mirror, env_update_submodules, platform_root,
                   dont_update_platform, build_ninja, app_bin, inputs, builds>>

\* Variant: only the artifact file is copied.
PackageOf_artifact_only(bin) ==
    [exists |-> TRUE, gen |-> bin.gen, complete |-> FALSE]

\* check_bin_file: the package is a copy of the whole binary-output directory.
PackageOf(bin) == [exists |-> TRUE, gen |-> bin.gen, complete |-> TRUE]

\* shutil.copytree can succeed only into a destination that is absent.
CopyOutcomes == IF dist_path.exists THEN {FALSE} ELSE BOOLEAN

\* check_bin_file: shutil.copytree and the success summary; copytree raises on
\* failure, leaving nothing or a part of the package behind, and the
\* exception leaves build_project and cli uncaught.
CopyTree(p) ==
    /\ At(p, "copytree")
    /\ \E ok \in CopyOutcomes :
         LET r == Call(inv[p], "copytree", "dist_path", ok) IN
         IF ok
         THEN /\ dist_path' = PackageOf(app_bin)
              /\ Set(p, Return(Log(Stage(r, "check_bin", "ok"), "note",
                                   "BUILD SUCCESS"), "True"))
         ELSE /\ \E left \in {dist_path, [exists |-> TRUE, gen |-> app_bin.gen,
                                           complete |-> FALSE]} :
                   dist_path' = left
              /\ Set(p, Return(Stage(r, "check_bin", "raised"), "raised"))
    /\ UNCHANGED <<mirror, env_update_submodules, platform_root,
                   dont_update_platform, build_ninja, app_bin, dist_root,
                   dist_other, inputs, builds>>

----------------------------------------------------------------------------
(* Specifications *)

InitDisk ==
    /\ mirror \in BOOLEAN
    /\ env_update_submodules = FALSE
    /\ platform_root \in {NoTree} \cup {[exists |-> TRUE, rev |-> c] : c \in Revs}
    /\ dont_update_platform \in BOOLEAN
    /\ platforms_yaml \in RegistryDocs
    /\ using_config \in ConfigFiles
    /\ repo_files \in RepoContents
    /\ build_ninja = FALSE
    /\ app_bin = [artifact |-> FALSE, gen |-> 0]
    /\ dist_other \in {NoPkg, OtherPkg}
    /\ dist_root = dist_other.exists
    /\ dist_path = NoPkg
    /\ builds = 0
    /\ inv = [p \in Procs |-> Fresh]

\* One build at a time on the project root.
Init == InitDisk /\ active = {1}

Next ==
    \E p \in Procs :
        \/ Invoke(p)
        \/ EnvRead(p)
        \/ UpdateSubmodules(p)
        \/ LoadConfig(p)
        \/ Download(p)
        \/ Prompt(p)
        \/ Region(p)
        \/ Clone(p)
        \/ Checkout(p)
        \/ Finally(p)
        \/ prepare_platform(p)
        \/ build_setup(p)
        \/ cmake_configure(p)
        \/ ninja_build(p)
        \/ check_bin_file(p)
        \/ RmRf(p)
        \/ CopyTree(p)

Spec == Init /\ [][Next]_vars

\* Two terminals on one project root: a fresh checkout of the project (no
\* platform tree, nothing cached, nothing packaged), the registry pinning
\* abc123, the configuration complete.
InitConcurrent ==
    /\ mirror = FALSE
    /\ env_update_submodules = FALSE
    /\ platform_root = NoTree
    /\ dont_update_platform = FALSE
    /\ platforms_yaml = <<OtherEntry, Entry("esp32", "https://example/esp32.git", "abc123")>>
    /\ using_config = ConfigValue
    /\ repo_files = {}
    /\ build_ninja = FALSE
    /\ app_bin = [artifact |-> FALSE, gen |-> 0]
    /\ dist_root = FALSE
    /\ dist_path = NoPkg
    /\ dist_other = NoPkg
    /\ builds = 0
    /\ inv = [p \in Procs |-> Fresh]
    /\ active = Procs

SpecConcurrent == InitConcurrent /\ [][Next]_vars

\* A step of invocation p after its start: a call that returns, or the
\* user's answer at the prompt.
Step(p) ==
    \/ EnvRead(p)
    \/ UpdateSubmodules(p)
    \/ LoadConfig(p)
    \/ Download(p)
    \/ Prompt(p)
    \/ Region(p)
    \/ Clone(p)
    \/ Checkout(p)
    \/ Finally(p)
    \/ prepare_platform(p)
    \/ build_setup(p)
    \/ cmake_configure(p)
    \/ ninja_build(p)
    \/ check_bin_file(p)
    \/ RmRf(p)
    \/ CopyTree(p)

\* One terminal, a complete configuration, the registry pinning abc123; the
\* tree absent or present, with or without flag and hook scripts.
InitLive ==
    /\ InitDisk
    /\ active = {1}
    /\ mirror = FALSE
    /\ platforms_yaml = <<OtherEntry, Entry("esp32", "https://example/esp32.git", "abc123")>>
    /\ using_config = ConfigValue
    /\ repo_files \in {{}, HookFiles}
    /\ dist_other = NoPkg

\* Every external call and the prompt return: a started invocation is never
\* left waiting for ever. Whether a build is started is up to the user.
SpecLive == InitLive /\ [][Next]_vars /\ \A p \in Procs : WF_vars(Step(p))

----------------------------------------------------------------------------
(* Properties *)

Ops(r) == {r.calls[i].op : i \in DOMAIN r.calls}

CallsOf(r, ops) == SelectSeq(r.calls, LAMBDA c : c.op \in ops)

GitCalls(r) == CallsOf(r, {"git_clone", "git_checkout"})

MirrorCalls(r, what) ==
    {i \in DOMAIN r.calls :
        r.calls[i].op = "set_repo_mirro" /\ r.calls[i].arg = what}

\* download_platform is running, at one of its blocking calls.
InDownload(r) == r.pc \in {"prompt", "region", "clone", "checkout", "finally"}

\* download_platform has returned in this invocation.
DownloadReturned(r) == \E i \in DOMAIN r.stages : r.stages[i].stage = "download"

DownloadCalled(r) == InDownload(r) \/ DownloadReturned(r)

\* download_platform has just returned: nothing ran after it.
DownloadJustReturned(r) ==
    /\ r.stages # <<>>
    /\ r.stages[Len(r.stages)].stage = "download"
    /\ r.pc \in {"prepare", "exited"}

\* The registry lookup of this invocation's platform.
Descriptor(r) == get_platform_info(r.platform_name)

\* The stages of build_project, in order.
Pipeline ==
    <<"env_check", "download", "prepare", "setup", "cmake", "ninja", "check_bin">>

AllStagesSucceeded(r) ==
    /\ Len(r.stages) = Len(Pipeline)
    /\ \A i \in DOMAIN r.stages :
         r.stages[i] = [stage |-> Pipeline[i], res |-> "ok"]

\* C1: when download_platform returns, the mirror state is the one it was
\* called with, whatever that state, the region and the clone/checkout outcome.
C1_MirrorRestored ==
    \A p \in active :
        DownloadJustReturned(inv[p]) => mirror = inv[p].dl0.mirror

\* C2: once download_platform has returned, every mirror enable it made is
\* followed by exactly one mirror disable, on the success, clone-failure and
\* checkout-failure paths alike.
C2_EnablePairedWithDisable ==
    \A p \in active :
        LET r == inv[p] IN
        /\ \A j \in MirrorCalls(r, "disable") :
              \E i \in MirrorCalls(r, "enable") : i < j
        /\ DownloadReturned(r) =>
              \A i \in MirrorCalls(r, "enable") :
                  Cardinality({j \in MirrorCalls(r, "disable") : j > i}) = 1

\* C2 witness: the checkout failed after the mirror was enabled, and
\* download_platform has returned failure.
C2_Witness ==
    \E p \in active :
        LET r == inv[p] IN
        /\ DownloadJustReturned(r)
        /\ r.dl_ret = "False"
        /\ MirrorCalls(r, "enable") # {}
        /\ \E i \in DOMAIN r.calls :
              r.calls[i].op = "git_checkout" /\ ~r.calls[i].ok

\* C3: with no registry entry for the configured platform, build_project
\* fails and runs no external process (clone, checkout, hooks, cmake, ninja).
C3_NoEntryNoProcess ==
    \A p \in active :
        LET r == inv[p] IN
        (DownloadCalled(r) /\ Descriptor(r) = <<>>) =>
            /\ Ops(r) \cap {"git_clone", "git_checkout", "do_subprocess"} = {}
            /\ r.pc = "exited" => r.ret = "False"

\* C4: with one of the six required configuration keys absent, build_project
\* fails before any external process runs (submodule update, clone, checkout,
\* hooks, cmake, ninja).
C4_MissingKeyNoProcess ==
    \A p \in active :
        LET r == inv[p] IN
        (DOMAIN using_config # RequiredKeys /\ r.pc # "idle") =>
            /\ Ops(r) \cap {"update_submodules", "git_clone", "git_checkout",
                             "do_subprocess"} = {}
            /\ r.pc = "exited" => r.ret = "False"

\* C5: a stage that reports failure is the last stage of its invocation, and
\* build_project returns failure.
C5_FirstFailureAborts ==
    \A p \in active :
        LET r == inv[p] IN
        \A i \in DOMAIN r.stages :
            r.stages[i].res = "fail" =>
                /\ i = Len(r.stages)
                /\ r.pc = "exited"
                /\ r.ret = "False"

\* C5 witness: the build-setup hook failed after three stages succeeded.
C5_Witness ==
    \E p \in active :
        LET r == inv[p] IN
        /\ Len(r.stages) = 4
        /\ r.stages[4] = [stage |-> "setup", res |-> "fail"]
        /\ r.pc = "exited"

\* C6: the build command exits with status 0 exactly when every stage of the
\* pipeline succeeded, and with a non-zero status otherwise.
C6_ExitStatus ==
    \A p \in active :
        LET r == inv[p] IN
        r.pc = "exited" => (r.exit = 0 <=> AllStagesSucceeded(r))

\* C6 witness: all seven stages succeeded and the command has exited with
\* status 0.
C6_Witness ==
    \E p \in active :
        LET r == inv[p] IN
        /\ r.pc = "exited"
        /\ r.exit = 0
        /\ AllStagesSucceeded(r)
        /\ dist_path.complete

\* C7: with the working tree present at the pinned revision, download_platform
\* reports success and does nothing else than read the current revision: no
\* clone, checkout, prompt, region detection or mirror toggle, and the
\* suppression flag, the mirror and the working tree are as they were.
C7_NoOpAtPinnedRevision ==
    \A p \in active :
        LET r == inv[p] IN
        (DownloadCalled(r) /\ r.dl0.tree.exists /\ r.dl0.tree.rev = r.commit) =>
            /\ DownloadReturned(r)
            /\ r.dl_ret = "True"
            /\ Ops(r) \cap {"git_clone", "git_checkout", "set_repo_mirro",
                             "get_country_code", "input"} = {}
            /\ mirror = r.dl0.mirror
            /\ dont_update_platform = r.dl0.flag
            /\ platform_root = r.dl0.tree

\* C7 witness: download_platform returned for a tree at the pinned revision,
\* with no suppression flag.
C7_Witness ==
    \E p \in active :
        LET r == inv[p] IN
        /\ DownloadJustReturned(r)
        /\ r.dl0.tree.exists
        /\ r.dl0.tree.rev = r.commit
        /\ ~r.dl0.flag

\* C8: when the suppression flag exists as provisioning starts, the user is
\* never prompted and a present working tree is never checked out to another
\* revision.
C8_FlagSuppressesPrompt ==
    \A p \in active :
        LET r == inv[p] IN
        (DownloadCalled(r) /\ r.dl0.flag) =>
            /\ r.pc # "prompt"
            /\ "input" \notin Ops(r)
            /\ r.dl0.tree.exists =>
                  /\ "git_checkout" \notin Ops(r)
                  /\ platform_root = r.dl0.tree

\* C8 witness: download_platform returned with the flag present and the tree
\* at a revision other than the pinned one.
C8_Witness ==
    \E p \in active :
        LET r == inv[p] IN
        /\ DownloadJustReturned(r)
        /\ r.dl0.flag
        /\ r.dl0.tree.exists
        /\ r.commit # ""
        /\ r.dl0.tree.rev # r.commit

\* The case of C9: a descriptor without pinned revision, the tree absent.
C9_Case(r) ==
    /\ DownloadCalled(r)
    /\ Descriptor(r) # <<>>
    /\ r.commit = ""
    /\ ~r.dl0.tree.exists

\* C9 as stated: with no pinned revision and the working tree absent,
\* provisioning always succeeds, by a clone followed by a checkout, and never
\* prompts.
C9_AlwaysPresent ==
    \A p \in active :
        LET r == inv[p] IN
        C9_Case(r) =>
            /\ r.pc # "prompt" /\ "input" \notin Ops(r)
            /\ DownloadReturned(r) =>
                  /\ r.dl_ret = "True"
                  /\ platform_root.exists
                  /\ [i \in DOMAIN GitCalls(r) |-> GitCalls(r)[i].op]
                        = <<"git_clone", "git_checkout">>

\* C9 amended: with no pinned revision and the working tree absent,
\* provisioning never prompts, calls clone and then, only after a successful
\* clone, checkout, and reports success (the tree present) exactly when both
\* succeeded.
C9_PresentIffCloneAndCheckout ==
    \A p \in active :
        LET r == inv[p]
            g == GitCalls(r) IN
        C9_Case(r) =>
            /\ r.pc # "prompt" /\ "input" \notin Ops(r)
            /\ DownloadReturned(r) =>
                  /\ Len(g) >= 1 /\ g[1].op = "git_clone"
                  /\ r.dl_ret = "True" <=>
                        /\ [i \in DOMAIN g |-> g[i].op] = <<"git_clone", "git_checkout">>
                        /\ \A i \in DOMAIN g : g[i].ok
                  /\ r.dl_ret = "True" => platform_root.exists

\* C9 witness: the clone and the checkout succeeded for a descriptor without
\* pinned revision.
C9_Witness ==
    \E p \in active :
        LET r == inv[p] IN
        /\ C9_Case(r)
        /\ DownloadJustReturned(r)
        /\ r.dl_ret = "True"
        /\ Len(GitCalls(r)) = 2

\* C10: with the working tree absent, download_platform clones the registry's
\* repository and then checks out the pinned revision; the checkout is
\* attempted only after a successful clone, and success is reported only if
\* both succeeded.
C10_CloneThenCheckout ==
    \A p \in active :
        LET r == inv[p]
            g == GitCalls(r) IN
        (DownloadReturned(r) /\ ~r.dl0.tree.exists) =>
            /\ Len(g) = IF Len(g) >= 1 /\ g[1].ok THEN 2 ELSE 1
            /\ g[1].op = "git_clone"
            /\ g[1].arg = Get(Descriptor(r), "repo")
            /\ Len(g) = 2 =>
                  /\ g[2].op = "git_checkout"
                  /\ g[2].arg = Get(Descriptor(r), "commit")
            /\ r.dl_ret = "True" => \A i \in DOMAIN g : g[i].ok

\* C10 witness: the tree was absent, the registry pins abc123, and
\* download_platform returned success with the tree at abc123.
C10_Witness ==
    \E p \in active :
        LET r == inv[p] IN
        /\ DownloadJustReturned(r)
        /\ ~r.dl0.tree.exists
        /\ Get(Descriptor(r), "commit") = "abc123"
        /\ r.dl_ret = "True"
        /\ platform_root = [exists |-> TRUE, rev |-> "abc123"]

\* The informational messages an invocation logged.
InfoLogged(r, msg) ==
    \E i \in DOMAIN r.logs : r.logs[i] = [lvl |-> "info", msg |-> msg]

\* C11: after download_platform reports success for a working tree that was
\* present, with a pinned revision, the tree is at the pinned revision, or the
\* user declined the update in this invocation, or the suppression flag exists.
C11_PinnedUnlessDeclined ==
    \A p \in active :
        LET r == inv[p] IN
        (DownloadReturned(r) /\ r.dl_ret = "True" /\ r.dl0.tree.exists
            /\ r.commit # "") =>
            \/ platform_root.rev = r.commit
            \/ r.answer = "N"
            \/ dont_update_platform

\* C12: on a drift without suppression flag, the answer skip leads to no
\* checkout, no suppression flag, an informational message and success.
C12_SkipLeavesTree ==
    \A p \in active :
        LET r == inv[p] IN
        (DownloadReturned(r) /\ r.answer = "N") =>
            /\ "git_checkout" \notin Ops(r)
            /\ platform_root = r.dl0.tree
            /\ ~dont_update_platform
            /\ InfoLogged(r, "Use tos.py update.")
            /\ r.dl_ret = "True"

\* C12 witness: the tree was at def456, abc123 is pinned, no flag, the user
\* answered n, and download_platform has returned.
C12_Witness ==
    \E p \in active :
        LET r == inv[p] IN
        /\ DownloadJustReturned(r)
        /\ r.answer = "N"
        /\ r.dl0.tree = [exists |-> TRUE, rev |-> "def456"]
        /\ r.commit = "abc123"
        /\ ~r.dl0.flag

\* C13: on a drift without suppression flag, the answer update-now makes one
\* checkout of the pinned revision, and provisioning reports success exactly
\* when that checkout succeeds; a failed checkout fails the build.
C13_UpdateNowChecksOut ==
    \A p \in active :
        LET r == inv[p]
            g == GitCalls(r) IN
        (DownloadReturned(r) /\ r.answer = "Y") =>
            /\ Len(g) = 1
            /\ g[1].op = "git_checkout"
            /\ g[1].arg = Get(Descriptor(r), "commit")
            /\ g[1].arg # ""
            /\ r.dl_ret = "True" <=> g[1].ok
            /\ g[1].ok => platform_root.rev = g[1].arg
            /\ ~g[1].ok => (r.pc = "exited" /\ r.ret = "False" /\ r.exit # 0)

\* C13 witness: the user answered y, the checkout failed, the build has
\* exited with failure.
C13_Witness ==
    \E p \in active :
        LET r == inv[p] IN
        /\ r.answer = "Y"
        /\ r.pc = "exited"
        /\ r.exit = 1
        /\ \E i \in DOMAIN r.calls :
              r.calls[i].op = "git_checkout" /\ ~r.calls[i].ok

\* C14: the answer suppress-permanently writes the suppression flag and makes
\* no checkout; the flag is never deleted, and while it exists no invocation
\* is at the drift prompt, so no later build prompts.
C14_SuppressPersists ==
    /\ [](\A p \in active :
            LET r == inv[p] IN
            (DownloadReturned(r) /\ r.answer = "D") =>
                /\ dont_update_platform
                /\ "git_checkout" \notin Ops(r)
                /\ platform_root = r.dl0.tree
                /\ r.dl_ret = "True")
    /\ [][dont_update_platform => dont_update_platform']_vars
    /\ [](dont_update_platform => \A p \in active : inv[p].pc # "prompt")
    /\ [](\A p \in active :
            inv[p].prev.answer = "D" => "input" \notin Ops(inv[p]))

\* C14 witness: the build after the one answered d has passed the revision
\* check of a tree that is still not at the pinned revision, without prompt.
C14_Witness ==
    \E p \in active :
        LET r == inv[p] IN
        /\ r.prev.answer = "D"
        /\ DownloadJustReturned(r)
        /\ r.dl0.flag
        /\ r.commit # ""
        /\ platform_root.rev # r.commit
        /\ "input" \notin Ops(r)

ErrorLogged(r, msg) ==
    \E i \in DOMAIN r.logs : r.logs[i] = [lvl |-> "error", msg |-> msg]

\* The last stage an invocation recorded.
LastStage(r) ==
    IF r.stages = <<>> THEN [stage |-> "", res |-> ""]
    ELSE r.stages[Len(r.stages)]

\* The path of the artifact the project configuration asks for.
ExpectedArtifact ==
    "app_bin_path/" \o Get(using_config, "CONFIG_PROJECT_NAME") \o "_QIO_"
        \o Get(using_config, "CONFIG_PROJECT_VERSION") \o ".bin"

\* C15: with the expected artifact absent, check_bin_file fails with an error
\* naming its path and leaves the distribution output as it was: no root or
\* package created, no package removed.
C15_MissingArtifactLeavesDist ==
    \A p \in active :
        LET r == inv[p] IN
        LastStage(r) = [stage |-> "check_bin", res |-> "fail"] =>
            /\ r.ret = "False"
            /\ ErrorLogged(r, "Not found " \o ExpectedArtifact)
            /\ dist_root = r.pk0.root
            /\ dist_path = r.pk0.path
            /\ Ops(r) \cap {"makedirs", "rm_rf", "copytree"} = {}

\* C15 witness: myapp_QIO_1.0.0.bin is absent after the build, and the
\* package of an earlier build is still there.
C15_Witness ==
    \E p \in active :
        LET r == inv[p] IN
        /\ LastStage(r) = [stage |-> "check_bin", res |-> "fail"]
        /\ ErrorLogged(r, "Not found app_bin_path/myapp_QIO_1.0.0.bin")
        /\ dist_path.exists /\ dist_path.complete

\* C16: after a successful run of the packager the package holds exactly the
\* binary-output directory of that build, whatever it held before.
C16_PackageIsBinOutput ==
    \A p \in active :
        LET r == inv[p] IN
        (r.pc = "exited" /\ r.ret = "True") =>
            /\ dist_root
            /\ dist_path = [exists |-> TRUE, gen |-> app_bin.gen, complete |-> TRUE]
            /\ dist_path.gen = r.id

\* C16 witness: the second of two consecutive successful builds has replaced
\* the package of the first.
C16_Witness ==
    \E p \in active :
        LET r == inv[p] IN
        /\ r.pc = "exited" /\ r.ret = "True"
        /\ r.id = 2
        /\ r.prev.exit = 0
        /\ r.pk0.path = [exists |-> TRUE, gen |-> 1, complete |-> TRUE]
        /\ dist_path.gen = 2

\* C17: during and after check_bin_file, also when the copy fails, the
\* package holds the complete previous contents or the complete new ones.
C17_AtomicReplace ==
    \A p \in active :
        LET r == inv[p] IN
        (r.pc \in {"rm_rf", "copytree"}
            \/ (r.pc = "exited" /\ LastStage(r).stage = "check_bin")) =>
            \/ dist_path = r.pk0.path
            \/ dist_path = [exists |-> TRUE, gen |-> app_bin.gen, complete |-> TRUE]

StageReached(r, name) == \E i \in DOMAIN r.stages : r.stages[i].stage = name

StageResult(r, name) ==
    IF StageReached(r, name)
    THEN r.stages[CHOOSE i \in DOMAIN r.stages : r.stages[i].stage = name].res
    ELSE "none"

\* The calls of do_subprocess with a command among `cmds`.
Subprocesses(r, cmds) ==
    SelectSeq(r.calls, LAMBDA c : c.op = "do_subprocess" /\ c.arg \in cmds)

\* C18: with build.ninja absent from the build directory, ninja_build returns
\* failure as a result, and the build tool is not invoked.
C18_NoGraphNoNinja ==
    \A p \in active :
        LET r == inv[p] IN
        (StageReached(r, "ninja") /\ ~build_ninja) =>
            /\ StageResult(r, "ninja") = "fail"
            /\ Subprocesses(r, {"ninja example"}) = <<>>
            /\ r.pc = "exited" /\ r.ret = "False"
            /\ ErrorLogged(r, "Build error.")

\* C18 witness: cmake succeeded without leaving build.ninja, and ninja_build
\* has returned failure.
C18_Witness ==
    \E p \in active :
        LET r == inv[p] IN
        /\ LastStage(r) = [stage |-> "ninja", res |-> "fail"]
        /\ ~build_ninja
        /\ r.ret = "False"

\* The hook stage `name` did what the claim C19 says of it.
HookStageRight(r, name, py, sh) ==
    LET ran == Subprocesses(r, {py, sh}) IN
    StageReached(r, name) =>
        IF ~HookExists(py) /\ ~HookExists(sh)
        THEN ran = <<>> /\ StageResult(r, name) = "ok"
        ELSE /\ Len(ran) = 1
             /\ ran[1].arg = IF HookExists(py) THEN py ELSE sh
             /\ StageResult(r, name) = "ok" <=> ran[1].ok

\* C19: a hook stage without script succeeds without running a subprocess;
\* with a script it runs it once and succeeds exactly when it exits with 0.
C19_HookStages ==
    \A p \in active :
        /\ HookStageRight(inv[p], "prepare",
                          "platform_prepare.py", "platform_prepare.sh")
        /\ HookStageRight(inv[p], "setup", "build_setup.py", "build_setup.sh")

\* C19 witness: the preparation stage succeeded without script, and the
\* build-setup script, a .sh, exited with a non-zero status.
C19_Witness ==
    \E p \in active :
        LET r == inv[p] IN
        /\ repo_files = {"build_setup.sh"}
        /\ StageReached(r, "prepare")
        /\ LastStage(r) = [stage |-> "setup", res |-> "fail"]
        /\ Len(Subprocesses(r, {"build_setup.sh"})) = 1

\* C20: the step in which a stage fails and build_project returns leaves the
\* working tree, the build graph, the suppression flag, the environment cache
\* and the distribution output as they are: nothing is rolled back.
C20_NoRollback ==
    [][\A p \in active :
          (inv[p].pc # "exited" /\ inv'[p].pc = "exited"
              /\ inv'[p].ret = "False") =>
              UNCHANGED <<platform_root, build_ninja, dont_update_platform,
                          env_update_submodules, dist_root, dist_path>>]_vars

\* C20 witness: the checkout failed after a successful clone; the build has
\* failed and the cloned tree is in place.
C20_Witness ==
    \E p \in active :
        LET r == inv[p] IN
        /\ r.pc = "exited" /\ r.ret = "False"
        /\ LastStage(r) = [stage |-> "download", res |-> "fail"]
        /\ ~r.dl0.tree.exists
        /\ platform_root.exists

\* The error-level messages an invocation logged, in order.
Errors(r) == SelectSeq(r.logs, LAMBDA l : l.lvl = "error")

\* The build command has ended in failure.
Failed(r) == r.pc = "exited" /\ r.exit # 0

\* shutil.copytree failed in this invocation.
CopyFailed(r) ==
    \E i \in DOMAIN r.calls : r.calls[i].op = "copytree" /\ ~r.calls[i].ok

\* C21: whenever the build command ends in failure, at least one error-level
\* message was logged before, a failed copy during packaging included.
C21_FailureLogged ==
    \A p \in active :
        Failed(inv[p]) => Errors(inv[p]) # <<>>

\* C22: when the copy into the package location fails, check_bin_file returns
\* the failure value to build_project, no BUILD SUCCESS summary is logged, and
\* the build ends in failure.
C22_CopyFailureReturned ==
    \A p \in active :
        LET r == inv[p] IN
        CopyFailed(r) =>
            /\ r.pc = "exited"
            /\ r.ret = "False"
            /\ r.exit # 0
            /\ \A i \in DOMAIN r.logs : r.logs[i].msg # "BUILD SUCCESS"

\* The messages that tell the user about a revision drift.
DriftNotices == {"commit mismatch", "Update the platform?", "Use tos.py update."}

\* C23: with the tree present at a revision other than the non-empty pinned
\* one and the suppression flag present, download_platform logs a notice about
\* the drift and reports success without checkout.
C23_SuppressedDriftNoticed ==
    \A p \in active :
        LET r == inv[p] IN
        (DownloadReturned(r) /\ r.dl0.tree.exists /\ r.commit # ""
            /\ r.dl0.tree.rev # r.commit /\ r.dl0.flag) =>
            /\ r.dl_ret = "True"
            /\ "git_checkout" \notin Ops(r)
            /\ \E i \in DOMAIN r.logs : r.logs[i].msg \in DriftNotices

\* C24: download_platform enables the mirror only with the working tree
\* absent and the zone "China"; with the tree present, or another zone, it
\* makes no mirror-toggle call and leaves the mirror as it is.
C24_MirrorOnlyForZone ==
    \A p \in active :
        LET r == inv[p] IN
        DownloadCalled(r) =>
            /\ MirrorCalls(r, "enable") # {} =>
                  (~r.dl0.tree.exists /\ r.code = "China")
            /\ (r.dl0.tree.exists \/ r.code # "China") =>
                  /\ "set_repo_mirro" \notin Ops(r)
                  /\ (InDownload(r) \/ DownloadJustReturned(r)) =>
                        mirror = r.dl0.mirror

\* C24 witness: the tree was absent, the zone is not China, and
\* download_platform has cloned and returned without touching the mirror.
C24_Witness ==
    \E p \in active :
        LET r == inv[p] IN
        /\ DownloadJustReturned(r)
        /\ ~r.dl0.tree.exists
        /\ r.code = "Other"
        /\ "git_clone" \in Ops(r)
        /\ "set_repo_mirro" \notin Ops(r)

\* The calls of update_submodules an invocation made.
UpdateCalls(r) == CallsOf(r, {"update_submodules"})

\* Invocation p calls update_submodules in this step.
RunsUpdate(p) ==
    /\ inv[p].pc = "update_submodules"
    /\ Len(UpdateCalls(inv'[p])) = Len(UpdateCalls(inv[p])) + 1

\* C25: over consecutive builds on one project root, update_submodules is not
\* called once the cache records its success; the cache changes only in the
\* step that calls it, to its result; and a build that finds the cache unset
\* (a first build, or one after a failed step) calls it once.
C25_SubmodulesOnce ==
    /\ [][\A p \in active : RunsUpdate(p) => ~env_update_submodules]_vars
    /\ [][env_update_submodules => env_update_submodules']_vars
    /\ [][env_update_submodules' # env_update_submodules =>
            \E p \in active :
                /\ RunsUpdate(p)
                /\ UpdateCalls(inv'[p])[1].ok = env_update_submodules']_vars
    /\ [](\A p \in active :
            LET r == inv[p] IN
            r.pc \notin {"idle", "env_check", "update_submodules"} =>
                Len(UpdateCalls(r)) = IF r.before_updated THEN 0 ELSE 1)

\* C25 witness: the first build failed in update_submodules, and the second
\* build has called it again, with success, and gone on.
C25_Witness ==
    \E p \in active :
        LET r == inv[p] IN
        /\ r.id = 2
        /\ r.prev.exit = 1
        /\ Len(UpdateCalls(r)) = 1
        /\ UpdateCalls(r)[1].ok
        /\ env_update_submodules
        /\ r.pc = "config"

\* C26: with the working tree present and no pinned revision, download_platform
\* reports success at once: the current revision is not read, the flag file is
\* not looked for, the user is not asked, nothing is cloned or checked out, and
\* the tree and the flag are as they were.
C26_AcceptedAsIs ==
    \A p \in active :
        LET r == inv[p] IN
        (DownloadCalled(r) /\ r.dl0.tree.exists /\ r.commit = "") =>
            /\ DownloadReturned(r)
            /\ r.dl_ret = "True"
            /\ Ops(r) \cap {"git_get_commit", "exists", "input", "git_checkout",
                             "git_clone"} = {}
            /\ platform_root = r.dl0.tree
            /\ dont_update_platform = r.dl0.flag

\* C26 witness: the registry entry of the platform pins no revision, the tree
\* is present, no flag exists, and download_platform has returned.
C26_Witness ==
    \E p \in active :
        LET r == inv[p] IN
        /\ DownloadJustReturned(r)
        /\ Descriptor(r) # <<>>
        /\ r.commit = ""
        /\ r.dl0.tree.exists
        /\ ~r.dl0.flag

\* The case in which C27 expects the prompt.
DriftCase(r) ==
    /\ r.dl0.tree.exists
    /\ r.commit # ""
    /\ ~r.dl0.flag
    /\ r.dl0.tree.rev # r.commit

\* The positions of the calls of `op` in an invocation's history.
CallIndex(r, op) == {i \in DOMAIN r.calls : r.calls[i].op = op}

\* C27: the user is at the prompt, or has answered it, exactly in the drift
\* case (tree present, revision pinned, no flag, revisions differ); a build
\* prompts at most once, and no checkout precedes the answer.
C27_PromptExactlyOnDrift ==
    \A p \in active :
        LET r == inv[p] IN
        /\ r.pc = "prompt" =>
              (DriftCase(r) /\ Ops(r) \cap {"input", "git_checkout"} = {})
        /\ "input" \in Ops(r) => DriftCase(r)
        /\ Cardinality(CallIndex(r, "input")) <= 1
        /\ DownloadReturned(r) =>
              (DriftCase(r) <=> Cardinality(CallIndex(r, "input")) = 1)
        /\ \A i \in CallIndex(r, "git_checkout"), j \in CallIndex(r, "input") :
              j < i

\* C27 witness: a drift without flag, answered with y: one prompt, then the
\* checkout.
C27_Witness ==
    \E p \in active :
        LET r == inv[p] IN
        /\ DriftCase(r)
        /\ DownloadReturned(r)
        /\ Cardinality(CallIndex(r, "input")) = 1
        /\ CallIndex(r, "git_checkout") # {}

\* C28: a build that fails has logged exactly one error-level message.
C28_OneErrorMessage ==
    \A p \in active :
        Failed(inv[p]) => Len(Errors(inv[p])) = 1

\* Invocation p is inside check_bin_file.
Packaging(p) == inv[p].pc \in {"check_bin", "rm_rf", "copytree"}

\* C30: the distribution root and the package of the pair being built change
\* only in steps of check_bin_file, and no step of any build changes another
\* package under the distribution root.
C30_OtherPackagesKept ==
    /\ [][dist_other' = dist_other]_vars
    /\ [][(dist_root' # dist_root \/ dist_path' # dist_path) =>
            \E p \in active : Packaging(p)]_vars
    /\ [](dist_other.exists => dist_root)

\* C30 witness: with myapp_0.9.0 packaged earlier, the second of two
\* successful builds of myapp 1.0.0 has replaced the package of the first.
C30_Witness ==
    \E p \in active :
        LET r == inv[p] IN
        /\ dist_other = OtherPkg
        /\ r.pc = "exited" /\ r.ret = "True"
        /\ r.pk0.path = [exists |-> TRUE, gen |-> 1, complete |-> TRUE]
        /\ dist_path = [exists |-> TRUE, gen |-> 2, complete |-> TRUE]
        /\ PackageName(r.using_data) = "myapp_1.0.0"

\* Invocation p saw the working tree absent and has called git_clone.
ClonedUnseen(r) ==
    DownloadCalled(r) /\ ~r.dl0.tree.exists /\ "git_clone" \in Ops(r)

\* Invocation p saw the cache unset and has called update_submodules.
UpdatedUncached(r) == r.id > 0 /\ ~r.before_updated /\ Len(UpdateCalls(r)) = 1

\* C29: no lock stands between two invocations on one project root: a build
\* can be started, and a started build can take its next step into
\* update_submodules or git_clone, wherever the other build is; a build that
\* saw the tree absent clones even if the tree has appeared since.
C29_NoLock ==
    \A p \in active :
        LET r == inv[p] IN
        /\ (r.pc \in {"idle", "exited"} /\ builds < MaxBuilds) => ENABLED Invoke(p)
        /\ r.pc = "env_check" => ENABLED EnvRead(p)
        /\ r.pc = "update_submodules" => ENABLED UpdateSubmodules(p)
        /\ r.pc = "download" => ENABLED Download(p)
        /\ r.pc = "clone" => ENABLED Clone(p)
        /\ (DownloadReturned(r) /\ ~r.dl0.tree.exists) => "git_clone" \in Ops(r)

\* C29 witness: both invocations found the cache unset and ran
\* update_submodules, and both found the working tree absent and called
\* git_clone on the same path.
C29_Witness ==
    /\ \A p \in Procs : UpdatedUncached(inv[p]) /\ ClonedUnseen(inv[p])
    /\ inv[1].repo = inv[2].repo

\* The stages before packaging all succeeded in this invocation, and its
\* ninja run exited with 0.
ReadyToPackage(r) ==
    /\ Len(r.stages) >= 6
    /\ \A i \in 1..6 : r.stages[i] = [stage |-> Pipeline[i], res |-> "ok"]
    /\ Len(Subprocesses(r, {"ninja example"})) = 1
    /\ Subprocesses(r, {"ninja example"})[1].ok

\* C31: a step changes the distribution root or a package only inside
\* check_bin_file of an invocation whose earlier stages all succeeded (ninja
\* exited with 0), with the expected artifact present; so a build that fails
\* before packaging changes no package.
C31_DistOnlyAfterBuild ==
    [][(dist_root' # dist_root \/ dist_path' # dist_path
            \/ dist_other' # dist_other) =>
          \E p \in active :
              /\ Packaging(p)
              /\ inv'[p].calls # inv[p].calls
              /\ ReadyToPackage(inv[p])
              /\ app_bin.artifact]_vars

\* C31 witness: the second build failed in cmake, and the package of the first
\* build is still in place.
C31_Witness ==
    \E p \in active :
        LET r == inv[p] IN
        /\ r.id = 2
        /\ LastStage(r) = [stage |-> "cmake", res |-> "fail"]
        /\ r.pc = "exited"
        /\ dist_path = [exists |-> TRUE, gen |-> 1, complete |-> TRUE]

\* The place of an external operation in the pipeline; 0 for a call that is
\* none (the prompt, the region detection, the mirror toggle, file calls).
ExternalRank(c) ==
    CASE c.op = "update_submodules" -> 1
      [] c.op = "git_clone" -> 2
      [] c.op = "git_checkout" -> 3
      [] c.op = "do_subprocess"
            /\ c.arg \in {"platform_prepare.py", "platform_prepare.sh"} -> 4
      [] c.op = "do_subprocess"
            /\ c.arg \in {"build_setup.py", "build_setup.sh"} -> 5
      [] c.op = "do_subprocess" /\ c.arg = "cmake -G Ninja" -> 6
      [] c.op = "do_subprocess" /\ c.arg = "ninja example" -> 7
      [] OTHER -> 0

\* The external operations of an invocation, as pipeline places, in the order
\* of the calls.
ExternalRanks(r) ==
    LET ext == SelectSeq(r.calls, LAMBDA c : ExternalRank(c) > 0) IN
    [i \in DOMAIN ext |-> ExternalRank(ext[i])]

\* C32: the stages of an invocation are an initial part of the pipeline, in
\* its order, and its external operations are called in pipeline order, each
\* at most once.
C32_FixedOrderNoRetry ==
    \A p \in active :
        LET r == inv[p]
            k == ExternalRanks(r) IN
        /\ Len(r.stages) <= Len(Pipeline)
        /\ \A i \in DOMAIN r.stages : r.stages[i].stage = Pipeline[i]
        /\ \A i, j \in DOMAIN k : i < j => k[i] < k[j]

\* C32 witness: a build that cloned, checked out, ran both hooks, cmake and
\* ninja, and packaged.
C32_Witness ==
    \E p \in active :
        LET r == inv[p] IN
        /\ AllStagesSucceeded(r)
        /\ ExternalRanks(r) = <<1, 2, 3, 4, 5, 6, 7>>

\* C33: a download that fails after a successful clone leaves the working
\* tree, and no step ever removes it; the build after it finds the tree
\* present, neither detects the region nor clones, checks out only on the
\* answer Y to the drift prompt, and passes the revision check by the prompt,
\* by the flag, by an empty pinned revision or by equal revisions.
C33_HalfCloneIsPresent ==
    /\ [](\A p \in active : HalfCloned(inv[p]) => platform_root.exists)
    /\ [][platform_root.exists => platform_root'.exists]_vars
    /\ [](\A p \in active :
            LET r == inv[p] IN
            (r.prev.half_cloned /\ DownloadCalled(r)) =>
                /\ r.dl0.tree.exists
                /\ Ops(r) \cap {"git_clone", "get_country_code"} = {}
                /\ "git_checkout" \in Ops(r) => r.answer = "Y"
                /\ DownloadReturned(r) =>
                      \/ "input" \in Ops(r)
                      \/ r.dl0.flag
                      \/ r.commit = ""
                      \/ r.dl0.tree.rev = r.commit)

\* C33 witness: the first build cloned def456 and failed to check out abc123;
\* the second build prompted, the user answered y, and the tree is at abc123.
C33_Witness ==
    \E p \in active :
        LET r == inv[p] IN
        /\ r.prev.half_cloned
        /\ DownloadJustReturned(r)
        /\ r.dl0.tree = [exists |-> TRUE, rev |-> "def456"]
        /\ r.answer = "Y"
        /\ platform_root = [exists |-> TRUE, rev |-> "abc123"]

\* C34: an answer to the drift prompt that is, in upper case, none of Y, N, D
\* leads to no checkout, no flag, no second prompt and no guidance message;
\* download_platform reports success with the tree at the revision it had,
\* which is not the pinned one.
C34_OtherAnswerSkips ==
    \A p \in active :
        LET r == inv[p] IN
        ("input" \in Ops(r) /\ r.answer \notin {"Y", "N", "D"}) =>
            /\ DownloadReturned(r)
            /\ r.dl_ret = "True"
            /\ "git_checkout" \notin Ops(r)
            /\ ~dont_update_platform
            /\ Cardinality(CallIndex(r, "input")) = 1
            /\ ~InfoLogged(r, "Use tos.py update.")
            /\ platform_root = r.dl0.tree
            /\ platform_root.rev # r.commit

\* C34 witness: the user typed "yes" at the prompt, and download_platform has
\* returned with the tree still at def456.
C34_Witness ==
    \E p \in active :
        LET r == inv[p] IN
        /\ DownloadJustReturned(r)
        /\ r.answer = "YES"
        /\ r.commit = "abc123"
        /\ platform_root = [exists |-> TRUE, rev |-> "def456"]

\* How far into build_project a position is.
Rank(pc) ==
    CASE pc = "idle" -> 0
      [] pc = "env_check" -> 1
      [] pc = "update_submodules" -> 2
      [] pc = "config" -> 3
      [] pc = "download" -> 4
      [] pc \in {"prompt", "region"} -> 5
      [] pc = "clone" -> 6
      [] pc = "checkout" -> 7
      [] pc = "finally" -> 8
      [] pc = "prepare" -> 9
      [] pc = "setup" -> 10
      [] pc = "cmake" -> 11
      [] pc = "ninja" -> 12
      [] pc = "check_bin" -> 13
      [] pc = "rm_rf" -> 14
      [] pc = "copytree" -> 15
      [] pc = "exited" -> 16

Running(r) == r.pc \notin {"idle", "exited"}

\* C35: when every external call and the prompt return, a started
\* build_project ends; each of its steps moves it forward in the pipeline, so
\* nothing is run again; and it ends with the result True or False whenever
\* the file copy returned rather than raised.
C35_Terminates ==
    /\ \A p \in Procs : Running(inv[p]) ~> (inv[p].pc = "exited")
    /\ [][\A p \in active :
            (Running(inv[p]) /\ inv'[p] # inv[p]) =>
                Rank(inv'[p].pc) > Rank(inv[p].pc)]_vars
    /\ [](\A p \in active :
            (inv[p].pc = "exited" /\ ~CopyFailed(inv[p])) =>
                inv[p].ret \in {"True", "False"})

\* C35 witness: a build that went through the prompt, both hooks, cmake, ninja
\* and the copy has ended with success.
C35_Witness ==
    \E p \in active :
        LET r == inv[p] IN
        /\ r.pc = "exited"
        /\ r.ret = "True"
        /\ "input" \in Ops(r)
        /\ ExternalRanks(r) = <<1, 3, 4, 5, 6, 7>>

====
